---- MODULE Spec2Model ----
(***************************************************************************)
(* ts-nano-event: createEmitter() of src/src/index.ts.                     *)
(*                                                                         *)
(* One emitter instance: m, a Map from event name to a Set of listeners,   *)
(* and the three methods on / off / emit, with the closure on returns.     *)
(* A second instance is there for the programs that create two emitters.   *)
(* A JavaScript Set is insertion ordered and holds each reference once;    *)
(* Set.prototype.forEach traverses the live Set: an entry appended during  *)
(* the traversal is visited, an entry deleted before the cursor reaches it *)
(* is not.  The call stack is explicit, so that a listener can call on,    *)
(* off, an unsubscribe closure or emit while an emit is in progress.       *)
(***************************************************************************)
EXTENDS Integers, Sequences, FiniteSets, TLC

VARIABLES
    m,        \* the Map of createEmitter: event name -> Set object (NoSet: no entry)
    other,    \* the Map of the second emitter, the one the program is not calling
    sets,     \* the heap of Set objects: sets[id] is the Set's entries, in insertion order
    unsub,    \* the unsubscribe closure the program holds on to and may invoke
    stack,    \* the call stack: emit frames and listener frames, top last
    fault,    \* an exception thrown by a listener is propagating
    calls,    \* emitter calls the listeners have made since the program's emit began
    log       \* what a program that records its emits has sent and its listeners got

vars == <<m, other, sets, unsub, stack, fault, calls, log>>

\* ------------------------------------------------------------------ bounds
MaxCalls == 2       \* emitter calls the listeners make during one emit of the program
MaxEmits == 3       \* emit calls in a row that a recording program makes

\* ---------------------------------------------------------------- universes
Names     == {"click", "message"}
Listeners == {"f1", "f2", "f3"}
Payloads  == {"a", "b"}
NoSet     == 0

\* the programs whose listeners call the emitter, and those that create two
\* emitters, are followed over one event name
ReNames   == {"click"}

\* ------------------------------------------------------- the Set operations
Range(s) == {s[i] : i \in DOMAIN s}

SetHas(s, f) == f \in Range(s)

\* variants of add: an array push, without the membership test; an unshift
SetAddPush(s, f) == Append(s, f)

SetAddFront(s, f) == IF SetHas(s, f) THEN s ELSE <<f>> \o s

\* Set.prototype.add: appends unless the reference is already an entry
SetAdd(s, f) == IF SetHas(s, f) THEN s ELSE Append(s, f)

\* variants of delete: one that removes nothing; an array splice at indexOf,
\* which cuts the last entry when the reference is absent; a swap with the
\* last entry followed by a pop
SetDeleteNone(s, f) == s

SetDeleteSplice(s, f) ==
    IF SetHas(s, f) THEN SelectSeq(s, LAMBDA e : e # f) ELSE SubSeq(s, 1, Len(s) - 1)

SetDeleteSwap(s, f) ==
    LET moved == [i \in DOMAIN s |-> IF s[i] = f THEN s[Len(s)] ELSE s[i]]
    IN  IF SetHas(s, f) THEN SubSeq(moved, 1, Len(s) - 1) ELSE s

\* Set.prototype.delete: removes the entry, the others keep their order
SetDelete(s, f) == SelectSeq(s, LAMBDA e : e # f)

\* ------------------------------------------------------------- the registry
\* the listeners registered for a name, in the Set's order
Reg(n) == IF m[n] = NoSet THEN <<>> ELSE sets[m[n]]

RegOf(mm, ss, n) == IF mm[n] = NoSet THEN <<>> ELSE ss[mm[n]]

Registered(n, f) == SetHas(Reg(n), f)

\* ---------------------------------------------------------------- the stack
NoFn == "-"

\* an emit call in progress: the Set forEach traverses and its cursor; snap,
\* inv and mut record what the call found registered, whom it has invoked and
\* whether the collection of its event changed meanwhile
EmitFrame(event, data, sid, snap) ==
    [k |-> "emit", event |-> event, data |-> data, f |-> NoFn, s |-> sid,
     idx |-> 0, snap |-> snap, inv |-> <<>>, mut |-> FALSE]

\* a listener invocation in progress, with the argument it was given
FnFrame(event, data, f) ==
    [k |-> "fn", event |-> event, data |-> data, f |-> f, s |-> NoSet,
     idx |-> 0, snap |-> <<>>, inv |-> <<>>, mut |-> FALSE]

Top == stack[Len(stack)]

Pop(stk) == SubSeq(stk, 1, Len(stk) - 1)

\* ---------------------------------------------------------- the recording
\* const received = []; emitter.on(N, (d) => received.push(d)); emit; emit ...
\* sent: the emit calls of the program since it began to record, got: the
\* listener invocations since; a call that changes the registry ends it
NoLog == [on |-> FALSE, sent |-> <<>>, got |-> <<>>]

Sent(event, data) ==
    IF log.on THEN [log EXCEPT !.sent = Append(@, [event |-> event, data |-> data])]
    ELSE log

Got(event, data, f) ==
    IF log.on
    THEN [log EXCEPT !.got = Append(@, [event |-> event, data |-> data, f |-> f])]
    ELSE log

\* the program calls the emitter
AtProgram == ~fault /\ stack = <<>>

\* the listener that is running calls the emitter
InListener ==
    /\ ~fault
    /\ stack # <<>>
    /\ Top.k = "fn"
    /\ calls < MaxCalls

\* one more call made by a listener; the count starts again once the program's
\* emit is over
CallsAfter == IF stack = <<>> THEN calls ELSE calls + 1

Left(stk) == IF stk = <<>> THEN 0 ELSE calls

\* the entries of the traversed Set that a forEach cursor has passed
Behind(fr) == IF fr.s = NoSet THEN {} ELSE {sets[fr.s][i] : i \in 1..fr.idx}

\* where the cursor of a forEach in progress stands once the Sets are ss: the
\* entries it has passed and that are still in the Set stay behind it
Cursor(fr, ss) ==
    IF fr.s = NoSet THEN 0
    ELSE Cardinality({i \in DOMAIN ss[fr.s] : ss[fr.s][i] \in Behind(fr)})

\* the stack after a call that leaves the Map as mm and the Sets as ss
Retarget(stk, mm, ss) ==
    [i \in DOMAIN stk |->
        IF stk[i].k = "emit"
        THEN [stk[i] EXCEPT !.idx = Cursor(stk[i], ss),
                            !.mut = @ \/ RegOf(mm, ss, stk[i].event) # Reg(stk[i].event)]
        ELSE stk[i]]

\* ------------------------------------------------- the closure that on returns
NoClosure == [event |-> "-", listener |-> NoFn, s |-> NoSet, st |-> "none"]

\* return () => { s.delete(listener) }: the closure captures s and listener.
\* st follows what happened to the pair since:
\*   live       the registration of this on call stands, no other on call for the pair
\*   dup        it stands, and so does that of another on call for the pair
\*   off        off removed it; the closure was never invoked
\*   dupoff     one off call removed it when several on calls' registrations stood
\*   offon      off removed it, a later on call registered the pair again
\*   called     the closure was invoked once; no on call for the pair since
\*   calleddup  the closure was invoked once, while another on call's registration stood
\*   called2    the closure was invoked again, no on call for the pair since the
\*              invocation before
\*   resub      the closure was invoked, a later on call registered the pair again
Closure(event, listener, sid) ==
    [event |-> event, listener |-> listener, s |-> sid,
     st |-> IF Registered(event, listener) THEN "dup" ELSE "live"]

StOn(st) ==
    CASE st = "live"                  -> "dup"
      [] st \in {"off", "dupoff"}     -> "offon"
      [] st \in {"called", "calleddup", "called2"} -> "resub"
      [] OTHER -> st

StOff(st) ==
    CASE st \in {"live", "offon"}        -> "off"
      [] st = "dup"                      -> "dupoff"
      [] st \in {"calleddup", "resub"}   -> "called"
      [] OTHER -> st

StCall(st) ==
    CASE st = "dup" -> "calleddup"
      [] st \in {"called", "calleddup", "called2"} -> "called2"
      [] OTHER -> "called"

\* the closure is followed through the calls made on the emitter that returned it
Follow(c, event, listener, st) ==
    IF c # NoClosure /\ c.event = event /\ c.listener = listener /\ c.s = m[event]
    THEN [c EXCEPT !.st = st] ELSE c

\* --------------------------------------------------------------------- on
\* variant: a new Set on every call
OnSetFresh(event) == Len(sets) + 1

\* variant: one registry for all the emitters (m outside createEmitter)
OnSetShared(event) ==
    IF m[event] # NoSet THEN m[event]
    ELSE IF other[event] # NoSet THEN other[event] ELSE Len(sets) + 1

\* let s = m.get(event); if (!s) ... (s = new Set())
OnSet(event) == IF m[event] = NoSet THEN Len(sets) + 1 ELSE m[event]

\* if (!s) m.set(event, s)
OnMap(event, sid) == IF m[event] = NoSet THEN [m EXCEPT ![event] = sid] ELSE m

\* s.add(listener)
OnSets(sid, listener) ==
    LET heap == IF sid > Len(sets) THEN Append(sets, <<>>) ELSE sets
    IN  [heap EXCEPT ![sid] = SetAdd(@, listener)]

\* variant: on calls the listener it registers, with a payload sent before
OnCallReplay(event, listener, keep) ==
    /\ keep => unsub = NoClosure
    /\ LET sid == OnSet(event)
           mm  == OnMap(event, sid)
           ss  == OnSets(sid, listener)
       IN  /\ m' = mm
           /\ sets' = ss
           /\ stack' = Append(Retarget(stack, mm, ss), FnFrame(event, "a", listener))
           /\ unsub' = IF keep THEN Closure(event, listener, sid)
                               ELSE Follow(unsub, event, listener, StOn(unsub.st))
    /\ calls' = CallsAfter
    /\ log' = NoLog
    /\ UNCHANGED <<other, fault>>

\* on(event, listener); keep: the caller holds on to the closure returned
OnCall(event, listener, keep) ==
    /\ keep => unsub = NoClosure
    /\ LET sid == OnSet(event)
           mm  == OnMap(event, sid)
           ss  == OnSets(sid, listener)
       IN  /\ m' = mm
           /\ sets' = ss
           /\ stack' = Retarget(stack, mm, ss)
           /\ unsub' = IF keep THEN Closure(event, listener, sid)
                               ELSE Follow(unsub, event, listener, StOn(unsub.st))
    /\ calls' = CallsAfter
    /\ log' = NoLog
    /\ UNCHANGED <<other, fault>>

On(event, listener, keep) == AtProgram /\ OnCall(event, listener, keep)

FnOn(event, listener) == InListener /\ OnCall(event, listener, FALSE)

\* ------------------------------------------------------ the returned closure
\* s.delete(listener), on the Set the closure captured
UnsubSets(c) == [sets EXCEPT ![c.s] = SetDelete(@, c.listener)]

UnsubCall ==
    /\ unsub # NoClosure
    /\ LET ss == UnsubSets(unsub)
       IN  /\ sets' = ss
           /\ stack' = Retarget(stack, m, ss)
    /\ unsub' = [unsub EXCEPT !.st = StCall(@)]
    /\ calls' = CallsAfter
    /\ log' = NoLog
    /\ UNCHANGED <<other, m, fault>>

Unsub == AtProgram /\ UnsubCall

FnUnsub == InListener /\ UnsubCall

\* -------------------------------------------------------------------- off
\* variant: off looks the listener up and deletes nothing
OffSetsNone(event, listener) == sets

\* m.get(event)?.delete(listener)
OffSets(event, listener) ==
    IF m[event] = NoSet THEN sets
    ELSE [sets EXCEPT ![m[event]] = SetDelete(@, listener)]

\* variant: off drops the Map entry of a collection it has emptied
OffCallPrune(event, listener) ==
    /\ calls' = CallsAfter
    /\ log' = NoLog
    /\ UNCHANGED <<other, fault>>
    /\ LET ss == OffSets(event, listener)
           mm == IF RegOf(m, ss, event) = <<>> THEN [m EXCEPT ![event] = NoSet] ELSE m
       IN  /\ sets' = ss
           /\ m' = mm
           /\ stack' = Retarget(stack, mm, ss)
    /\ unsub' = Follow(unsub, event, listener, StOff(unsub.st))

OffCall(event, listener) ==
    /\ calls' = CallsAfter
    /\ log' = NoLog
    /\ UNCHANGED <<other, m, fault>>
    /\ LET ss == OffSets(event, listener)
       IN  /\ sets' = ss
           /\ stack' = Retarget(stack, m, ss)
    /\ unsub' = Follow(unsub, event, listener, StOff(unsub.st))

Off(event, listener) == AtProgram /\ OffCall(event, listener)

FnOff(event, listener) == InListener /\ OffCall(event, listener)

\* -------------------------------------------------------------------- emit
\* variant: one Set for all the names, the first one created
EmitSetShared(event) == IF sets = <<>> THEN NoSet ELSE 1

\* m.get(event)?.forEach(...): the Set traversed, none without a Map entry
EmitSet(event) == m[event]

EmitCall(event, data) ==
    /\ log.on => Len(log.sent) < MaxEmits
    /\ stack' = Append(stack, EmitFrame(event, data, EmitSet(event), Reg(event)))
    /\ calls' = CallsAfter
    /\ log' = Sent(event, data)
    /\ UNCHANGED <<other, m, sets, unsub, fault>>

Emit(event, data) == AtProgram /\ EmitCall(event, data)

FnEmit(event, data) == InListener /\ EmitCall(event, data)

\* variants of the traversal: one that starts an entry too far; one over a copy
\* of the Set taken when emit was called
ForEachRestSkip(fr) ==
    IF fr.s = NoSet THEN <<>> ELSE SubSeq(sets[fr.s], fr.idx + 2, Len(sets[fr.s]))

ForEachRestSnap(fr) == SubSeq(fr.snap, Len(fr.inv) + 1, Len(fr.snap))

\* the entries forEach still has to visit
ForEachRest(fr) ==
    IF fr.s = NoSet THEN <<>> ELSE SubSeq(sets[fr.s], fr.idx + 1, Len(sets[fr.s]))

\* fn(data)
InvokeArg(fr) == fr.data

\* forEach calls the next entry
Invoke ==
    /\ ~fault
    /\ stack # <<>>
    /\ Top.k = "emit"
    /\ ForEachRest(Top) # <<>>
    /\ LET fr == Top
           fn == Head(ForEachRest(fr))
       IN  /\ stack' = Append([stack EXCEPT ![Len(stack)] =
                                    [fr EXCEPT !.idx = @ + 1, !.inv = Append(@, fn)]],
                               FnFrame(fr.event, InvokeArg(fr), fn))
           /\ log' = Got(fr.event, InvokeArg(fr), fn)
    /\ UNCHANGED <<other, m, sets, unsub, fault, calls>>

\* variant: the listeners are registered for one emit (the Set is cleared)
EmitReturnOnce ==
    /\ ~fault
    /\ stack # <<>>
    /\ Top.k = "emit"
    /\ ForEachRest(Top) = <<>>
    /\ stack' = Pop(stack)
    /\ calls' = Left(stack')
    /\ sets' = IF Top.s = NoSet THEN sets ELSE [sets EXCEPT ![Top.s] = <<>>]
    /\ UNCHANGED <<log, other, m, unsub, fault>>

\* variant: emit returns before the traversal is over, what is left is deferred
EmitReturnEarly ==
    /\ ~fault
    /\ stack # <<>>
    /\ Top.k = "emit"
    /\ stack' = Pop(stack)
    /\ calls' = Left(stack')
    /\ UNCHANGED <<log, other, m, sets, unsub, fault>>

\* forEach has visited every entry: emit returns
EmitReturn ==
    /\ ~fault
    /\ stack # <<>>
    /\ Top.k = "emit"
    /\ ForEachRest(Top) = <<>>
    /\ stack' = Pop(stack)
    /\ calls' = Left(stack')
    /\ UNCHANGED <<log, other, m, sets, unsub, fault>>

\* ------------------------------------------------------------ the listeners
FnReturn ==
    /\ ~fault
    /\ stack # <<>>
    /\ Top.k = "fn"
    /\ stack' = Pop(stack)
    /\ UNCHANGED <<log, other, m, sets, unsub, fault, calls>>

FnThrow ==
    /\ ~fault
    /\ stack # <<>>
    /\ Top.k = "fn"
    /\ stack' = Pop(stack)
    /\ fault' = TRUE
    /\ UNCHANGED <<log, other, m, sets, unsub, calls>>

\* variant: emit catches what a listener throws and goes on with the next one
UnwindCaught ==
    /\ fault
    /\ stack # <<>>
    /\ Top.k = "emit"
    /\ fault' = FALSE
    /\ UNCHANGED <<log, other, m, sets, unsub, stack, calls>>

\* emit has no try/catch: the exception leaves forEach and emit
Unwind ==
    /\ fault
    /\ stack # <<>>
    /\ Top.k = "emit"
    /\ stack' = Pop(stack)
    /\ calls' = Left(stack')
    /\ UNCHANGED <<log, other, m, sets, unsub, fault>>

\* the caller of the failed emit is a listener: it catches, or fails in turn
FnCatch ==
    /\ fault
    /\ stack # <<>>
    /\ Top.k = "fn"
    /\ fault' = FALSE
    /\ UNCHANGED <<log, other, m, sets, unsub, stack, calls>>

FnRethrow ==
    /\ fault
    /\ stack # <<>>
    /\ Top.k = "fn"
    /\ stack' = Pop(stack)
    /\ UNCHANGED <<log, other, m, sets, unsub, fault, calls>>

\* the caller of the failed emit is the program
CallerCatch ==
    /\ fault
    /\ stack = <<>>
    /\ fault' = FALSE
    /\ UNCHANGED <<log, other, m, sets, unsub, stack, calls>>

\* ------------------------------------------------------------ specification
\* const m = new Map()
Init ==
    /\ m = [n \in Names |-> NoSet]
    /\ other = [n \in Names |-> NoSet]
    /\ sets = <<>>
    /\ unsub = NoClosure
    /\ stack = <<>>
    /\ fault = FALSE
    /\ calls = 0
    /\ log = NoLog

\* forEach and the listeners it calls, the listeners calling nothing back
Dispatch ==
    \/ Invoke
    \/ EmitReturn
    \/ FnReturn
    \/ FnThrow
    \/ Unwind
    \/ CallerCatch

\* programs whose listeners do not call the emitter
Next ==
    \/ \E n \in Names, f \in Listeners, keep \in BOOLEAN : On(n, f, keep)
    \/ Unsub
    \/ \E n \in Names, f \in Listeners : Off(n, f)
    \/ \E n \in Names, v \in Payloads : Emit(n, v)
    \/ Dispatch

Spec == Init /\ [][Next]_vars

\* programs whose listeners call on, off, the closure and emit while an emit
\* is in progress
NextReentrant ==
    \/ \E n \in ReNames, f \in Listeners, keep \in BOOLEAN : On(n, f, keep)
    \/ Unsub
    \/ \E n \in ReNames, f \in Listeners : Off(n, f)
    \/ \E n \in ReNames, v \in Payloads : Emit(n, v)
    \/ \E n \in ReNames, f \in Listeners : FnOn(n, f)
    \/ FnUnsub
    \/ \E n \in ReNames, f \in Listeners : FnOff(n, f)
    \/ \E n \in ReNames, v \in Payloads : FnEmit(n, v)
    \/ Dispatch
    \/ FnCatch
    \/ FnRethrow

SpecReentrant == Init /\ [][NextReentrant]_vars

\* the program begins to record what it sends and what its listeners get
Record ==
    /\ AtProgram
    /\ ~log.on
    /\ log' = [NoLog EXCEPT !.on = TRUE]
    /\ UNCHANGED <<m, other, sets, unsub, stack, fault, calls>>

\* programs that record, with listeners that return
NextRepeat ==
    \/ \E n \in Names, f \in Listeners : On(n, f, FALSE)
    \/ \E n \in Names, f \in Listeners : Off(n, f)
    \/ \E n \in Names, v \in Payloads : Emit(n, v)
    \/ Invoke
    \/ EmitReturn
    \/ FnReturn
    \/ Record

SpecRepeat == Init /\ [][NextRepeat]_vars

\* const a = createEmitter(); const b = createEmitter(): the program turns to
\* the emitter it was not calling
Switch ==
    /\ AtProgram
    /\ m' = other
    /\ other' = m
    /\ UNCHANGED <<sets, unsub, stack, fault, calls, log>>

\* programs that create two emitters and call now one, now the other
NextTwo ==
    \/ \E n \in ReNames, f \in Listeners, keep \in BOOLEAN : On(n, f, keep)
    \/ Unsub
    \/ \E n \in ReNames, f \in Listeners : Off(n, f)
    \/ \E n \in ReNames, v \in Payloads : Emit(n, v)
    \/ Dispatch
    \/ Switch

SpecTwo == Init /\ [][NextTwo]_vars

\* ------------------------------------------------------------------ claims
Count(s, x) == Cardinality({i \in DOMAIN s : s[i] = x})

Without(s, f) == SelectSeq(s, LAMBDA e : e # f)

\* the emit call on top of the stack has visited every entry and returns next
AtReturn ==
    /\ ~fault
    /\ stack # <<>>
    /\ Top.k = "emit"
    /\ ForEachRest(Top) = <<>>

\* the returning emit call is one for the pair of the closure the program holds
ForClosure == AtReturn /\ unsub # NoClosure /\ Top.event = unsub.event

\* every listener invocation in progress was given the payload and the event
\* of the emit call that made it
PayloadPassed ==
    \A i \in DOMAIN stack :
        stack[i].k = "fn" =>
            /\ i > 1
            /\ stack[i - 1].k = "emit"
            /\ stack[i].data = stack[i - 1].data
            /\ stack[i].event = stack[i - 1].event

\* C1: an emit(N, v) during which no listener changes the registry has, when
\* it returns, invoked every listener registered for N exactly once and no
\* other listener, and every invocation received v.
C1_Delivery ==
    /\ PayloadPassed
    /\ (AtReturn /\ ~Top.mut) =>
           \A f \in Listeners :
               Count(Top.inv, f) = IF Registered(Top.event, f) THEN 1 ELSE 0

C1_Witness ==
    /\ AtReturn
    /\ ~Top.mut
    /\ Top.data = "b"
    /\ Len(Top.inv) = 3
    /\ Len(Reg("message")) = 1
    /\ Top.event = "click"

\* the calls keep each collection in subscription order: a listener that gets
\* registered goes behind all those registered, a listener that is registered
\* already keeps its place, the listeners that stay keep their relative order
OrderKept ==
    \A n \in Names :
        LET a == Reg(n)
            b == RegOf(m', sets', n)
        IN  /\ \A f \in Range(b) \ Range(a) : b = Append(a, f)
            /\ Range(b) \subseteq Range(a) =>
                   b = SelectSeq(a, LAMBDA e : e \in Range(b))

\* C2: emit invokes the listeners of N in subscription order, after any
\* sequence of on / off / unsubscribe calls: the invocations of a returning
\* emit are the collection in its order, and the calls keep the collection in
\* the order in which the standing registrations were made (a listener
\* registered again after its removal goes last).
C2_SubscriptionOrder ==
    /\ [](AtReturn /\ ~Top.mut => Top.inv = Reg(Top.event))
    /\ [][OrderKept]_vars

C2_Witness ==
    /\ ForClosure
    /\ unsub.listener = "f1"
    /\ unsub.st = "resub"
    /\ Top.inv = <<"f2", "f3", "f1">>

\* two on calls for the pair of the closure, no removal in between, and an
\* emit for its event returns
AfterDoubleOn == ForClosure /\ unsub.st = "dup"

\* C3, as claimed: on(N, f) twice with no removal in between makes two
\* entries, and the emit that follows invokes f twice.
C3_Original ==
    AfterDoubleOn => Count(Top.inv, unsub.listener) >= 2

\* C3, amended: on(N, f) twice with no removal in between leaves one entry
\* for f (the collection is a Set), and the emit that follows invokes f once.
C3_SingleEntry ==
    /\ (unsub # NoClosure /\ unsub.st = "dup") =>
           Count(Reg(unsub.event), unsub.listener) = 1
    /\ AfterDoubleOn => Count(Top.inv, unsub.listener) = 1

C3_Witness ==
    /\ AfterDoubleOn
    /\ Count(Top.inv, unsub.listener) = 1
    /\ Len(Top.inv) = 2

\* the closure has been invoked and no on call for its pair was made since
Invoked == unsub # NoClosure /\ unsub.st \in {"called", "calleddup", "called2"}

\* a removal of f from n leaves every collection as it was, but for f under n
OnlyRemoved(n, f) ==
    \A k \in Names :
        RegOf(m', sets', k) = IF k = n THEN Without(Reg(n), f) ELSE Reg(k)

SameRegistry == \A k \in Names : RegOf(m', sets', k) = Reg(k)

\* C4, as claimed: the closure removes the registration of its own on call
\* only: the registration made for the same pair by another on call is still
\* there once the closure has been invoked.
C4_Original ==
    (unsub # NoClosure /\ unsub.st = "calleddup") =>
        Registered(unsub.event, unsub.listener)

\* C4, amended: the closure removes the one entry that all the on(N, f) calls
\* since the last removal share, and nothing else: once it has been invoked f
\* is not registered under N and emit(N) does not invoke f, also when another
\* on(N, f) call had been made, while every other entry is left as it was.
C4_RemovesTheEntry ==
    /\ [](Invoked => ~Registered(unsub.event, unsub.listener))
    /\ []((ForClosure /\ Invoked) => ~SetHas(Top.inv, unsub.listener))
    /\ [][UnsubCall => OnlyRemoved(unsub.event, unsub.listener)]_vars

C4_Witness ==
    /\ ForClosure
    /\ unsub.st = "calleddup"
    /\ Len(Top.inv) = 2
    /\ ~SetHas(Top.inv, unsub.listener)

\* C5, as claimed: whatever calls were made in between, the second and every
\* later invocation of a closure leaves the registry unchanged.
C5_Original ==
    [][(UnsubCall /\ unsub.st \in {"called", "calleddup", "called2", "resub"})
          => SameRegistry]_vars

\* C5, amended: invoking the closure again never faults (the Set it captured
\* exists) and changes nothing as long as no on(N, f) was made since its
\* previous invocation; after such an on call it removes f from N again.
C5_IdempotentUntilOn ==
    /\ [](unsub # NoClosure => unsub.s \in DOMAIN sets)
    /\ [][(UnsubCall /\ Invoked) => (SameRegistry /\ m' = m /\ sets' = sets)]_vars
    /\ [][(UnsubCall /\ unsub.st = "resub") =>
              /\ Registered(unsub.event, unsub.listener)
              /\ OnlyRemoved(unsub.event, unsub.listener)]_vars

C5_Witness ==
    /\ unsub # NoClosure
    /\ unsub.st = "called2"
    /\ Len(Reg(unsub.event)) = 2
    /\ stack = <<>>

\* the listener that an Invoke step calls
InvokedNext == stack'[Len(stack')].f

\* forEach calls entries of the Set only: whoever is invoked is registered for
\* the event at that moment
InvokesRegistered == Invoke => Registered(Top.event, InvokedNext)

\* C6, as claimed: the listeners an emit call has invoked when it returns are
\* those registered when it began, also when listeners registered or removed
\* listeners for the event during the call.
C6_Original ==
    AtReturn => Range(Top.inv) = Range(Top.snap)

\* C6, amended: that holds when the collection of N did not change during the
\* call; the traversal is live otherwise: whoever is registered for N when the
\* call returns has been invoked by it (so has a listener added during the
\* call), and a listener is invoked only while it is registered (one removed
\* before its turn is not invoked).
C6_LiveTraversal ==
    /\ []((AtReturn /\ ~Top.mut) => Top.inv = Top.snap)
    /\ [](AtReturn => Range(Reg(Top.event)) \subseteq Range(Top.inv))
    /\ [][InvokesRegistered]_vars

C6_Witness ==
    /\ AtReturn
    /\ Top.mut
    /\ Range(Top.inv) \ Range(Top.snap) # {}
    /\ Range(Top.snap) \ Range(Top.inv) # {}

\* C7: once off(N, f) has returned, no emit invokes f for N until an on(N, f)
\* call: off leaves f unregistered, only on(N, f) registers f for N, and
\* forEach invokes registered listeners only; so an emit for N that finds N's
\* collection as off left it has not invoked f when it returns.
C7_OffUntilOn ==
    /\ [][/\ \A n \in Names, f \in Listeners :
                 OffCall(n, f) => ~SetHas(RegOf(m', sets', n), f)
          /\ \A n \in Names, f \in Listeners :
                 (~Registered(n, f) /\ SetHas(RegOf(m', sets', n), f))
                     => \E keep \in BOOLEAN : OnCall(n, f, keep)
          /\ InvokesRegistered]_vars
    /\ []((ForClosure /\ unsub.st \in {"off", "dupoff"} /\ ~Top.mut) =>
              ~SetHas(Top.inv, unsub.listener))

C7_Witness ==
    /\ ForClosure
    /\ unsub.st = "off"
    /\ ~Top.mut
    /\ Len(Top.inv) = 2
    /\ ~SetHas(Top.inv, unsub.listener)

\* C8: the closure does what off(N, f) does: in every state it holds the Set
\* the Map holds for N, invoking it would leave the Sets as off(N, f) would,
\* and once it has been invoked the emit that follows does not invoke f.
C8_UnsubIsOff ==
    /\ unsub # NoClosure =>
           /\ unsub.s = m[unsub.event]
           /\ UnsubSets(unsub) = OffSets(unsub.event, unsub.listener)
    /\ Invoked => ~Registered(unsub.event, unsub.listener)
    /\ (ForClosure /\ Invoked) => ~SetHas(Top.inv, unsub.listener)

C8_Witness ==
    /\ ForClosure
    /\ unsub.st = "called"
    /\ Top.snap = Reg(Top.event)
    /\ Len(Top.inv) = 1
    /\ m["message"] # NoSet

\* C9: after the closure was invoked and f registered again for N, whatever
\* the number of such rounds, f has one entry under N and an emit(N) invokes
\* f exactly once.
C9_Resubscribed ==
    /\ (unsub # NoClosure /\ unsub.st = "resub") =>
           Count(Reg(unsub.event), unsub.listener) = 1
    /\ (ForClosure /\ unsub.st = "resub") =>
           Count(Top.inv, unsub.listener) = 1

C9_Witness ==
    /\ ForClosure
    /\ unsub.st = "resub"
    /\ Count(Top.inv, unsub.listener) = 1
    /\ Len(Top.inv) = 1

\* C10: removing f from N, by off or by the closure, changes nothing but the
\* entry of f under N: the other listeners of N keep their order, the other
\* names their collections (an entry of f among them), and an emit for N
\* after the removal invokes everyone still registered for N.
C10_RemovalFrame ==
    /\ [][\A n \in Names, f \in Listeners :
              (OffCall(n, f) \/ (UnsubCall /\ unsub.event = n /\ unsub.listener = f))
                  => OnlyRemoved(n, f)]_vars
    /\ []((ForClosure /\ unsub.st \in {"off", "dupoff", "called"}) =>
              Top.inv = Reg(Top.event))

C10_Witness ==
    /\ ForClosure
    /\ unsub.st \in {"off", "called"}
    /\ Top.event = "click"
    /\ Top.inv = <<"f2", "f3">>
    /\ Registered("message", unsub.listener)

\* the emit calls in progress
EmitFrames == {i \in DOMAIN stack : stack[i].k = "emit"}

\* C11: emit(B, v) invokes only listeners registered under B: the listener an
\* emit call invokes is registered for the event of the call, so that a
\* listener registered under other names only is never invoked by it, after
\* any sequence of on / off / unsubscribe / emit calls.
C11_NameIsolation ==
    /\ [](\A i \in EmitFrames :
              \A f \in Range(stack[i].inv) : Registered(stack[i].event, f))
    /\ [][Invoke => /\ Registered(Top.event, InvokedNext)
                    /\ stack'[Len(stack')].event = Top.event]_vars

C11_Witness ==
    /\ AtReturn
    /\ Top.event = "message"
    /\ Top.inv = <<"f2">>
    /\ Reg("click") = <<"f1", "f3">>

\* the Sets a Map holds
SetsOf(mm) == {mm[n] : n \in Names} \ {NoSet}

\* the closure the program holds was returned by the emitter it is not calling
OwnedByOther == unsub # NoClosure /\ unsub.s \in SetsOf(other)

\* the registry of the emitter that is not called is left as it was
OtherSame ==
    /\ other' = other
    /\ \A n \in Names : RegOf(other, sets', n) = RegOf(other, sets, n)

\* C12: two emitters share no state: their Maps never hold the same Set; on,
\* off and emit on one emitter, and the listeners it calls, leave the
\* registry of the other as it was; a closure changes the registry of the
\* emitter that returned it only; and an emit invokes only listeners
\* registered on the emitter it was called on.
C12_InstanceIsolation ==
    /\ [](SetsOf(m) \cap SetsOf(other) = {})
    /\ [](\A i \in EmitFrames :
              \A f \in Range(stack[i].inv) : Registered(stack[i].event, f))
    /\ [][/\ (UnsubCall /\ OwnedByOther) => (m' = m /\ SameRegistry)
          /\ ~(UnsubCall /\ OwnedByOther) => (Switch \/ OtherSame)]_vars

C12_Witness ==
    /\ AtReturn
    /\ Top.inv = <<"f1">>
    /\ Reg("click") = <<"f1">>
    /\ RegOf(other, sets, "click") = <<"f2", "f3">>
    /\ OwnedByOther
    /\ unsub.listener = "f1"
    /\ unsub.st = "called"

\* a listener called by the emit on top of the stack has thrown
Faulted == fault /\ stack # <<>> /\ Top.k = "emit"

\* C13: emit does not intercept a listener's fault. When a listener has
\* thrown, the emit call has invoked the listeners up to the failing one, each
\* once and in order, and the registry is as the call found it; the call then
\* ends at once with the fault standing, so that the listeners after the
\* failing one are not invoked and the fault reaches the caller of emit; the
\* throw and the way out of emit leave every listener registered.
C13_FaultPropagates ==
    /\ [](Faulted =>
              /\ Top.inv # <<>>
              /\ Top.inv = SubSeq(Reg(Top.event), 1, Len(Top.inv))
              /\ Reg(Top.event) = Top.snap
              /\ \A f \in Listeners : Count(Top.inv, f) <= 1)
    /\ [][FnThrow => (fault' /\ Faulted' /\ SameRegistry)]_vars
    /\ [][Faulted => (fault' /\ stack' = Pop(stack) /\ m' = m /\ SameRegistry)]_vars

C13_Witness ==
    /\ Faulted
    /\ Len(stack) = 1
    /\ Top.snap = <<"f1", "f2", "f3">>
    /\ Top.inv = <<"f1", "f2">>
    /\ Reg(Top.event) = <<"f1", "f2", "f3">>

\* the Map, the Sets and the stack are left as they were, no fault is raised
Untouched == m' = m /\ sets' = sets /\ stack' = stack /\ ~fault'

\* C14: emit(N, v) when N has no listener (no entry in the Map, or an entry
\* whose Set is empty) and off(N, f) when f is not registered under N (N
\* without an entry included) raise no fault, invoke nobody and leave the
\* registry as it was: off changes nothing at all, emit finds nothing to
\* visit and returns.
C14_NoOpSafety ==
    /\ [][\A n \in Names, f \in Listeners :
              (OffCall(n, f) /\ ~Registered(n, f)) => Untouched]_vars
    /\ [][\A n \in Names, v \in Payloads :
              (EmitCall(n, v) /\ Reg(n) = <<>>) =>
                  (m' = m /\ sets' = sets /\ ~fault' /\ AtReturn')]_vars
    /\ []((stack # <<>> /\ Top.k = "emit" /\ Top.snap = <<>>) =>
              (~fault /\ Top.inv = <<>> /\ ForEachRest(Top) = <<>>))
    /\ [][(AtReturn /\ Top.snap = <<>>) => (EmitReturn /\ SameRegistry)]_vars

C14_Witness ==
    /\ AtReturn
    /\ Top.event = "click"
    /\ Top.s # NoSet
    /\ Top.snap = <<>>
    /\ Top.inv = <<>>
    /\ Len(Reg("message")) = 2

Data(t) == [i \in DOMAIN t |-> t[i].data]

\* the payloads the program sent for n since it began to record
SentFor(n) == Data(SelectSeq(log.sent, LAMBDA e : e.event = n))

\* the payloads f was given for n since
ReceivedBy(n, f) == Data(SelectSeq(log.got, LAMBDA e : e.event = n /\ e.f = f))

\* C15: emit does not consume a registration: no step of an emit call changes
\* the Map or a Set, and after K emit calls in a row, for any names and with
\* any payloads, a listener registered for N has been invoked for N once per
\* emit(N, v), the i-th time with the i-th payload sent for N, and a listener
\* not registered for N not at all.
C15_RepeatDelivery ==
    /\ []((log.on /\ stack = <<>>) =>
              \A n \in Names, f \in Listeners :
                  ReceivedBy(n, f) = IF Registered(n, f) THEN SentFor(n) ELSE <<>>)
    /\ [][(stack # <<>> \/ stack' # <<>>) => (m' = m /\ sets' = sets)]_vars

C15_Witness ==
    /\ log.on
    /\ stack = <<>>
    /\ SentFor("click") = <<"a", "b", "a">>
    /\ ReceivedBy("click", "f1") = <<"a", "b", "a">>
    /\ Reg("click") = <<"f2", "f1">>

\* the step calls no listener: the frames are those there were, with the
\* invocations they had made
NobodyInvoked ==
    /\ Len(stack') = Len(stack)
    /\ \A i \in DOMAIN stack :
           /\ stack'[i].k = stack[i].k
           /\ stack'[i].f = stack[i].f
           /\ stack'[i].inv = stack[i].inv

\* the step calls a listener
InvokedOne == Len(stack') = Len(stack) + 1 /\ stack'[Len(stack')].k = "fn"

\* C17: on(N, f) changes the registry and nothing else: it invokes nobody,
\* neither f nor a listener registered before, also when it is called while
\* an emit is in progress, and raises no fault. There is no replay: a
\* listener is invoked only by an emit call in progress, with the payload of
\* that call.
C17_OnInvokesNobody ==
    /\ [][\A n \in Names, f \in Listeners, keep \in BOOLEAN :
              OnCall(n, f, keep) => (NobodyInvoked /\ fault' = fault)]_vars
    /\ [][InvokedOne =>
              /\ stack # <<>>
              /\ Top.k = "emit"
              /\ stack'[Len(stack')].data = Top.data
              /\ stack'[Len(stack')].event = Top.event]_vars

C17_Witness ==
    /\ ~fault
    /\ Len(stack) = 2
    /\ Top.k = "fn"
    /\ Top.f = "f1"
    /\ stack[1].snap = <<"f1">>
    /\ stack[1].inv = <<"f1">>
    /\ Reg("click") = <<"f1", "f2">>

\* C18: the references collapse to one slot: a collection never holds a
\* listener twice, whatever the number of on(N, f) calls, so that one
\* off(N, f) leaves no entry of f under N, also after several on(N, f) calls
\* with no removal in between, and the emit(N, v) that follows does not
\* invoke f while it invokes the others.
C18_OffBySetMembership ==
    /\ [](\A n \in Names, f \in Listeners : Count(Reg(n), f) <= 1)
    /\ [][\A n \in Names, f \in Listeners :
              OffCall(n, f) => Count(RegOf(m', sets', n), f) = 0]_vars
    /\ []((unsub # NoClosure /\ unsub.st = "dupoff") =>
              ~Registered(unsub.event, unsub.listener))
    /\ []((ForClosure /\ unsub.st = "dupoff") =>
              /\ ~SetHas(Top.inv, unsub.listener)
              /\ Top.inv = Reg(Top.event))

C18_Witness ==
    /\ ForClosure
    /\ unsub.st = "dupoff"
    /\ unsub.listener = "f2"
    /\ Top.snap = <<"f1", "f3">>
    /\ Top.inv = <<"f1", "f3">>

\* the registry as a caller can observe it: the listeners of each name, in
\* order; a name without a Map entry and a name with an empty Set are the same
AbsReg == [n \in Names |-> Reg(n)]

AbsRegNext == [n \in Names |-> RegOf(m', sets', n)]

\* what is left to invoke for an emit call, told from the registry and from
\* the invocations the call has made
AbsRest(fr) == SubSeq(Reg(fr.event), Len(fr.inv) + 1, Len(Reg(fr.event)))

\* C19: a name whose collection was emptied cannot be told from a name never
\* registered. What each call does is a function of the observable registry
\* (in which an empty Set and a missing entry are the same empty sequence)
\* and of the call's arguments: on appends unless present, off and the
\* closure remove, emit changes nothing and invokes what the registry lists;
\* whether the Map retains an empty Set has no part in it.
C19_EmptyIsAbsent ==
    /\ [](\A i \in EmitFrames : ForEachRest(stack[i]) = AbsRest(stack[i]))
    /\ [][\A n \in Names, f \in Listeners, keep \in BOOLEAN :
              OnCall(n, f, keep) =>
                  AbsRegNext = [AbsReg EXCEPT ![n] =
                                   IF f \in Range(@) THEN @ ELSE Append(@, f)]]_vars
    /\ [][\A n \in Names, f \in Listeners :
              OffCall(n, f) => AbsRegNext = [AbsReg EXCEPT ![n] = Without(@, f)]]_vars
    /\ [][UnsubCall =>
              AbsRegNext = [AbsReg EXCEPT ![unsub.event] = Without(@, unsub.listener)]]_vars
    /\ [][\A n \in Names, v \in Payloads :
              EmitCall(n, v) =>
                  /\ AbsRegNext = AbsReg
                  /\ AbsRest(stack'[Len(stack')]) = Reg(n)]_vars

C19_Witness ==
    /\ ForClosure
    /\ unsub.st = "off"
    /\ Top.event = "click"
    /\ Top.s # NoSet
    /\ Top.snap = <<>>
    /\ Top.inv = <<>>
    /\ AbsReg["click"] = AbsReg["message"]
    /\ m["message"] = NoSet

\* the step ends the emit call on top of the stack without a fault
Returns == ~fault /\ ~fault' /\ stack # <<>> /\ Top.k = "emit" /\ stack' = Pop(stack)

\* a call in progress below the top of the stack goes on only when the calls
\* it made are over: until then it invokes nobody
WaitsForCallee ==
    \A i \in DOMAIN stack :
        (i < Len(stack) /\ i <= Len(stack')) => stack'[i].inv = stack[i].inv

\* the frame above an emit call is the listener it invoked last, still
\* running; the frame above a listener is an emit call the listener made
Nested ==
    \A i \in DOMAIN stack :
        /\ i = 1 => stack[i].k = "emit"
        /\ i > 1 =>
               IF stack[i].k = "fn"
               THEN /\ stack[i - 1].k = "emit"
                    /\ stack[i - 1].inv # <<>>
                    /\ stack[i].f = stack[i - 1].inv[Len(stack[i - 1].inv)]
               ELSE stack[i - 1].k = "fn"

\* C20: dispatch is synchronous. An emit call returns only when it has
\* nothing left to visit and the listeners it called are over: whoever is
\* registered for its event then has been invoked, nothing is queued. A
\* listener runs on top of the emit call that invoked it, an emit called by a
\* listener on top of that listener, and a call below the top invokes nobody
\* until the calls above it are over: the nested emit delivers and returns
\* before the outer emit invokes its next listener.
C20_Synchronous ==
    /\ [][Returns =>
              /\ ForEachRest(Top) = <<>>
              /\ Range(Reg(Top.event)) \subseteq Range(Top.inv)]_vars
    /\ [][WaitsForCallee]_vars
    /\ []Nested

C20_Witness ==
    /\ AtReturn
    /\ Len(stack) = 3
    /\ stack[1].inv = <<"f1">>
    /\ ForEachRest(stack[1]) = <<"f2">>
    /\ stack[2].f = "f1"
    /\ Top.inv = <<"f1", "f2">>
    /\ Top.data # stack[1].data

\* the emit call on top of the stack has invoked listeners, they have
\* returned, and the call is where it began: the Set is as the call found it
\* and all of it is still to visit
BackAtStart ==
    /\ ~fault
    /\ stack # <<>>
    /\ Top.k = "emit"
    /\ Top.inv # <<>>
    /\ Top.snap # <<>>
    /\ Reg(Top.event) = Top.snap
    /\ ForEachRest(Top) = Top.snap

\* C21, as claimed: an emit call returns after finitely many invocations
\* whatever the listeners register and remove meanwhile, provided each
\* invocation returns. The call then makes headway: it never stands again,
\* after invocations that have all returned, where it stood when it began;
\* from there listeners that do each time what they did go round forever.
C21_Original == ~BackAtStart

\* C22, as claimed: one emit call invokes each listener at most once, whatever
\* on / off / closure calls the listeners make meanwhile (the invocations of
\* a nested emit call are counted for that call, not for the outer one).
C22_Original ==
    \A i \in EmitFrames, f \in Listeners : Count(stack[i].inv, f) <= 1

\* the step removes f from n, by off or by the closure
Removes(n, f) ==
    \/ OffCall(n, f)
    \/ unsub.event = n /\ unsub.listener = f /\ UnsubCall

\* no emit call in progress for n, on top of the stack or below, has f left
\* to visit once the step is over
NotAhead(n, f) ==
    \A fr \in Range(stack') :
        (fr.k = "emit" /\ fr.event = n) => ~SetHas(ForEachRest(fr)', f)

\* C23: a removal takes effect at once, also inside an emit in progress. When
\* off(N, f) or the closure of f returns, f is not registered for N and no
\* emit call in progress for N, outer or nested, has f left to visit; what an
\* emit call has left to visit is registered at every moment; and an
\* invocation begins only for a listener registered at that moment. So f is
\* not invoked for N until an on(N, f) call.
C23_RemovalAtOnce ==
    /\ [](\A i \in EmitFrames :
              Range(ForEachRest(stack[i])) \subseteq Range(Reg(stack[i].event)))
    /\ [][\A n \in Names, f \in Listeners :
              Removes(n, f) => (~SetHas(RegOf(m', sets', n), f) /\ NotAhead(n, f))]_vars
    /\ [][InvokedOne => Registered(Top.event, InvokedNext)]_vars

C23_Witness ==
    /\ AtReturn
    /\ Len(stack) = 1
    /\ Top.snap = <<"f1", "f2", "f3">>
    /\ Top.inv = <<"f1", "f3">>
    /\ Reg(Top.event) = <<"f1", "f3">>
    /\ unsub # NoClosure
    /\ unsub.listener = "f2"
    /\ unsub.st = "called"

====
